---------------------------- MODULE Spec2Model ----------------------------
(***************************************************************************)
(* Model of src/app.py: the recovery/economics engine (ultra_engine), the  *)
(* profitability sweep (generate_heatmap_data), the caller-derived metrics *)
(* (total_opex, profit_hr, actual_margin, cost_per_ton, profit_per_ton)    *)
(* and the top-level control flow of the script.                           *)
(*                                                                         *)
(* Numbers.  The program computes with Python floats.  The model computes  *)
(* with exact rationals <<n, d>> (d > 0, lowest terms), so a value of the  *)
(* model is the real number the float approximates; round(x, k) is         *)
(* modelled as round-half-to-even of the exact value.                      *)
(***************************************************************************)
EXTENDS Integers, Sequences, FiniteSets, TLC

(***************************************************************************)
(* Exact rational arithmetic (the float operators of the source).          *)
(***************************************************************************)
Abs(n) == IF n < 0 THEN -n ELSE n

RECURSIVE GCD(_, _)
GCD(a, b) == IF b = 0 THEN a ELSE GCD(b, a % b)

Rat(n, d) ==
    LET g == GCD(Abs(n), d) IN <<n \div g, d \div g>>

Q(n) == <<n, 1>>

RZero == Q(0)

RNeg(x) == <<-x[1], x[2]>>

RAdd(x, y) ==
    LET g == GCD(x[2], y[2])
    IN  Rat(x[1] * (y[2] \div g) + y[1] * (x[2] \div g), (x[2] \div g) * y[2])

RSub(x, y) == RAdd(x, RNeg(y))

RMul(x, y) ==
    LET g1 == GCD(Abs(x[1]), y[2])
        g2 == GCD(Abs(y[1]), x[2])
    IN  IF x[1] = 0 \/ y[1] = 0 THEN RZero
        ELSE <<(x[1] \div g1) * (y[1] \div g2), (x[2] \div g2) * (y[2] \div g1)>>

RInv(x) == IF x[1] < 0 THEN <<-x[2], -x[1]>> ELSE <<x[2], x[1]>>

\* x / y for y # 0; the callers model the ZeroDivisionError of y = 0 themselves
RDiv(x, y) == RMul(x, RInv(y))

RLt(x, y) == RSub(x, y)[1] < 0

RLe(x, y) == RSub(x, y)[1] <= 0

RMax(x, y) == IF RLt(x, y) THEN y ELSE x

RAbs(x) == <<Abs(x[1]), x[2]>>

RECURSIVE Pow10(_)
Pow10(k) == IF k = 0 THEN 1 ELSE 10 * Pow10(k - 1)

\* round(x, k): the nearest multiple of 10^-k, ties to the even multiple
Round(x, k) ==
    LET s == RMul(x, Q(Pow10(k)))
        q == s[1] \div s[2]
        r == s[1] % s[2]
        up == \/ 2 * r > s[2]
              \/ (2 * r = s[2] /\ q % 2 # 0)
    IN  Rat(IF up THEN q + 1 ELSE q, Pow10(k))

RECURSIVE RSum(_, _)
RSum(s, k) == IF k = 0 THEN RZero ELSE RAdd(RSum(s, k - 1), s[k])

(***************************************************************************)
(* 2. BASE DATA                                                            *)
(***************************************************************************)
\* insertion order of the FEED_GRADES dict
RefOrder == <<"Gold", "Magnetite", "Ilmenite", "Rutile", "Monazite">>

RefMinerals == {RefOrder[i] : i \in 1..Len(RefOrder)}

FEED_GRADES ==
    [m \in RefMinerals |->
        CASE m = "Gold"      -> Rat(80, 100)
          [] m = "Magnetite" -> Q(6)
          [] m = "Ilmenite"  -> Rat(15, 10)
          [] m = "Rutile"    -> Rat(30, 100)
          [] m = "Monazite"  -> Rat(15, 100)]

BASE_REC ==
    [m \in RefMinerals |->
        CASE m = "Gold"      -> Q(65)
          [] m = "Magnetite" -> Q(70)
          [] m = "Ilmenite"  -> Q(60)
          [] m = "Rutile"    -> Q(55)
          [] m = "Monazite"  -> Q(50)]

\* default values of the price inputs
DefaultPrices ==
    [m \in RefMinerals |->
        CASE m = "Gold"      -> Q(80)
          [] m = "Magnetite" -> Q(100)
          [] m = "Ilmenite"  -> Q(250)
          [] m = "Rutile"    -> Q(800)
          [] m = "Monazite"  -> Q(1500)]

\* a dict as the sequence of its items, in insertion order
Items(order, f) == [i \in 1..Len(order) |-> <<order[i], f[order[i]]>>]

\* user_targets = {m: slider(..., float(v)) for m, v in BASE_REC.items()}
user_targets(rec) == Items(RefOrder, rec)

Keys(items) == [i \in 1..Len(items) |-> items[i][1]]

KeySet(items) == {items[i][1] : i \in 1..Len(items)}

(***************************************************************************)
(* 4. ENGINE LOGIC: ultra_engine(rate, targets, prices, split_pos,         *)
(* size_d80).  targets is a dict, modelled as the sequence of its items;   *)
(* prices is a dict, modelled as a function on its keys.                   *)
(***************************************************************************)
VARIABLES
    rate, targets, prices, split_pos, size_d80,  \* arguments of the last engine call
    outcome,     \* how that call ended: "ok", or the exception it raised
    ret,         \* the tuple it returned
    frame,       \* its locals when it ended
    calls,       \* engine calls made so far
    pc,          \* the statement the script is at
    globals,     \* the script's module namespace: bound name -> value
    heat_args,   \* arguments of generate_heatmap_data
    heat         \* the tuple generate_heatmap_data returned

engineVars == <<rate, targets, prices, split_pos, size_d80,
                outcome, ret, frame, calls>>

scriptVars == <<pc, globals>>

heatVars == <<heat_args, heat>>

vars == <<engineVars, scriptVars, heatVars>>

\* size_factor = 1.0; if size_d80 < 100: ...; elif size_d80 > 400: ...
size_factor_no_floor(d80) ==
    IF d80 < 100 THEN Rat(d80, 100)
    ELSE IF d80 > 400 THEN RSub(Q(1), Rat(d80 - 400, 800))
    ELSE Q(1)

size_factor_of(d80) ==
    IF d80 < 100 THEN Rat(d80, 100)
    ELSE IF d80 > 400 THEN RMax(Rat(4, 10), RSub(Q(1), Rat(d80 - 400, 800)))
    ELSE Q(1)

\* mass_pull = 0.10 + (split_pos * 0.10)
mass_pull_clamped(split) ==
    LET s == RMax(Q(0), IF RLt(Q(2), split) THEN Q(2) ELSE split)
    IN  RAdd(Rat(10, 100), RMul(s, Rat(10, 100)))

mass_pull_of(split) == RAdd(Rat(10, 100), RMul(split, Rat(10, 100)))

\* feed_m = rate * (FEED_GRADES[m] if m == "Gold" else FEED_GRADES[m]/100)
feed_m_all_percent(r, m) == RMul(r, RDiv(FEED_GRADES[m], Q(100)))

feed_m_of(r, m) ==
    RMul(r, IF m = "Gold" THEN FEED_GRADES[m] ELSE RDiv(FEED_GRADES[m], Q(100)))

\* grade = conc_m / conc_mass if m == "Gold" else (conc_m/conc_mass)*100
grade_of(m, conc_m, conc_mass) ==
    IF m = "Gold" THEN RDiv(conc_m, conc_mass)
    ELSE RMul(RDiv(conc_m, conc_mass), Q(100))

\* total_rev = 0: the accumulator is a local, set anew in every call
total_rev_stale == frame.total_rev

total_rev_init == RZero

\* for m, rec in targets.items(): the iteration order is that of targets
items_reference_order(t) ==
    LET idx == {i \in 1..Len(RefOrder) : RefOrder[i] \in KeySet(t)}
        pick(m) == CHOOSE j \in 1..Len(t) : t[j][1] = m
        nth(k) == CHOOSE i \in idx : Cardinality({h \in idx : h < i}) = k - 1
    IN  [k \in 1..Cardinality(idx) |-> t[pick(RefOrder[nth(k)])]]

items_of(t) == t

\* the locals of the call after k completed iterations of the for loop
RECURSIVE engine_loop(_, _, _, _, _, _, _)
engine_loop(items, k, acc, r, pr, size_factor, conc_mass) ==
    IF k > Len(items) THEN acc
    ELSE
      LET m == items[k][1]
          rec == items[k][2]
          eff_rec == RMul(rec, size_factor)
      IN
      IF m \notin DOMAIN FEED_GRADES
      THEN [acc EXCEPT !.status = "KeyError", !.m = m]
      ELSE
        LET feed_m == feed_m_of(r, m)
            conc_m == RMul(feed_m, RDiv(eff_rec, Q(100)))
        IN
        IF conc_mass = RZero
        THEN [acc EXCEPT !.status = "ZeroDivisionError", !.m = m]
        ELSE
          LET grade == grade_of(m, conc_m, conc_mass) IN
          IF m \notin DOMAIN pr
          THEN [acc EXCEPT !.status = "KeyError", !.m = m]
          ELSE
            LET rev == RMul(conc_m, pr[m])
                row == [Mineral |-> m,
                        Recovery |-> Round(eff_rec, 2),
                        ConcGrade |-> Round(grade, 4),
                        Revenue |-> Round(rev, 2)]
                it == [m |-> m, rec |-> rec, eff_rec |-> eff_rec,
                       feed_m |-> feed_m, conc_m |-> conc_m,
                       grade |-> grade, rev |-> rev]
            IN  engine_loop(items, k + 1,
                    [acc EXCEPT !.m = m,
                                !.results = Append(@, row),
                                !.iters = Append(@, it),
                                !.total_rev = RAdd(@, rev)],
                    r, pr, size_factor, conc_mass)

\* the whole call: the frame it ends with (status "ok" when it returns)
ultra_engine(r, t, pr, split, d80) ==
    LET size_factor == size_factor_of(d80)
        mass_pull == mass_pull_of(split)
        conc_mass == RMul(r, mass_pull)
    IN  engine_loop(items_of(t), 1,
            [status |-> "ok", m |-> "", size_factor |-> size_factor,
             mass_pull |-> mass_pull, conc_mass |-> conc_mass,
             results |-> <<>>, iters |-> <<>>, total_rev |-> total_rev_init],
            r, pr, size_factor, conc_mass)

\* return pd.DataFrame(results), conc_mass, total_rev
Returned(f) ==
    IF f.status = "ok"
    THEN [rows |-> f.results, conc_mass |-> f.conc_mass, total_rev |-> f.total_rev]
    ELSE [rows |-> <<>>, conc_mass |-> RZero, total_rev |-> RZero]

(***************************************************************************)
(* The engine as a function: a caller invokes it with the script's default *)
(* arguments, then again and again with one argument changed.  The sample  *)
(* sets hold the slider ranges' ends and defaults, the values the engine's *)
(* branches turn on, and arguments outside the sliders' ranges, which the  *)
(* function accepts.                                                       *)
(***************************************************************************)
MaxCalls == 4

RateSamples == {Q(0), Q(100), Q(101), Q(300), Q(500)}

SplitSamples == {Q(-1), Q(0), Rat(1, 2), Q(1), Q(2), Q(3)}

D80Samples == {20, 50, 90, 100, 150, 400, 600, 840, 880, 1000, 1200}

\* another setting of the five recovery sliders
AltRec ==
    [m \in RefMinerals |->
        CASE m = "Gold"      -> Q(80)
          [] m = "Magnetite" -> Q(0)
          [] m = "Ilmenite"  -> Q(100)
          [] m = "Rutile"    -> Q(35)
          [] m = "Monazite"  -> Rat(125, 10)]

\* another setting of the five price inputs
AltPrices ==
    [m \in RefMinerals |->
        CASE m = "Gold"      -> Rat(795, 10)
          [] m = "Magnetite" -> Q(0)
          [] m = "Ilmenite"  -> Rat(2505, 10)
          [] m = "Rutile"    -> Q(1000)
          [] m = "Monazite"  -> Q(1500)]

PermutedOrder == <<"Monazite", "Gold", "Rutile", "Magnetite", "Ilmenite">>

MissingOrder == <<"Gold", "Magnetite", "Ilmenite", "Rutile">>

UnknownOrder == <<"Gold", "Magnetite", "Zircon", "Ilmenite", "Rutile", "Monazite">>

WithZircon(rec) == [m \in RefMinerals \cup {"Zircon"} |->
                       IF m = "Zircon" THEN Q(50) ELSE rec[m]]

TargetSamples ==
    {Items(o, WithZircon(rec)) :
        o \in {RefOrder, PermutedOrder, MissingOrder, UnknownOrder},
        rec \in {BASE_REC, AltRec}}

PriceSamples ==
    {DefaultPrices, AltPrices,
     [m \in RefMinerals \ {"Rutile"} |-> DefaultPrices[m]]}

\* the call and what it leaves: the frame, the outcome and the returned tuple
Call(r, t, pr, split, d80) ==
    LET f == ultra_engine(r, t, pr, split, d80)
    IN  /\ rate' = r
        /\ targets' = t
        /\ prices' = pr
        /\ split_pos' = split
        /\ size_d80' = d80
        /\ frame' = f
        /\ outcome' = f.status
        /\ ret' = Returned(f)
        /\ calls' = calls + 1
        /\ UNCHANGED <<scriptVars, heatVars>>

NoFrame ==
    [status |-> "none", m |-> "", size_factor |-> Q(1),
     mass_pull |-> RZero, conc_mass |-> RZero,
     results |-> <<>>, iters |-> <<>>, total_rev |-> RZero]

\* no engine call under observation
EngineIdle ==
    /\ rate = Q(300)
    /\ targets = user_targets(BASE_REC)
    /\ prices = DefaultPrices
    /\ split_pos = Q(1)
    /\ size_d80 = 150
    /\ frame = NoFrame
    /\ outcome = "none"
    /\ ret = Returned(NoFrame)
    /\ calls = 0

\* no script run under observation
ScriptIdle ==
    /\ pc = "idle"
    /\ globals = <<>>

\* no sweep under observation
HeatIdle ==
    /\ heat_args = <<>>
    /\ heat = <<>>

\* before the first call: the script's default arguments
Init ==
    /\ EngineIdle
    /\ ScriptIdle
    /\ HeatIdle

FirstCall ==
    /\ calls = 0
    /\ Call(rate, targets, prices, split_pos, size_d80)

CallWithRate ==
    /\ calls \in 1..(MaxCalls - 1)
    /\ \E r \in RateSamples \ {rate} :
          Call(r, targets, prices, split_pos, size_d80)

CallWithTargets ==
    /\ calls \in 1..(MaxCalls - 1)
    /\ \E t \in TargetSamples \ {targets} :
          Call(rate, t, prices, split_pos, size_d80)

CallWithPrices ==
    /\ calls \in 1..(MaxCalls - 1)
    /\ \E pr \in PriceSamples \ {prices} :
          Call(rate, targets, pr, split_pos, size_d80)

CallWithSplit ==
    /\ calls \in 1..(MaxCalls - 1)
    /\ \E s \in SplitSamples \ {split_pos} :
          Call(rate, targets, prices, s, size_d80)

CallWithD80 ==
    /\ calls \in 1..(MaxCalls - 1)
    /\ \E d \in D80Samples \ {size_d80} :
          Call(rate, targets, prices, split_pos, d)

Next ==
    \/ FirstCall
    \/ CallWithRate
    \/ CallWithTargets
    \/ CallWithPrices
    \/ CallWithSplit
    \/ CallWithD80

Spec == Init /\ [][Next]_vars

(***************************************************************************)
(* Properties of the engine, checked under Spec.                           *)
(***************************************************************************)
\* the input contract of section 4.1: both mappings keyed by the reference set
ValidKeys ==
    /\ KeySet(targets) = RefMinerals
    /\ DOMAIN prices = RefMinerals

RowMinerals(rows) == [k \in 1..Len(rows) |-> rows[k].Mineral]

RowRevenues(rows) == [k \in 1..Len(rows) |-> rows[k].Revenue]

IterRevenues(iters) == [k \in 1..Len(iters) |-> iters[k].rev]

\* C1: for a valid input set with rate > 0, the returned total revenue is the
\* sum of the per-mineral revenues of that same call (nothing of an earlier
\* call is in it), every row's 'Revenue $/hr' is within 0.005 of its revenue,
\* and the rows' revenues sum to the total within 0.005 per row.
C1_TotalIsSumOfRows ==
    (outcome = "ok" /\ ValidKeys /\ RLt(RZero, rate)) =>
        /\ Len(ret.rows) = Len(frame.iters)
        /\ Len(ret.rows) = Len(RefOrder)
        /\ ret.total_rev = RSum(IterRevenues(frame.iters), Len(frame.iters))
        /\ \A k \in 1..Len(ret.rows) :
              RLe(RAbs(RSub(ret.rows[k].Revenue, frame.iters[k].rev)),
                  Rat(5, 1000))
        /\ RLe(RAbs(RSub(RSum(RowRevenues(ret.rows), Len(ret.rows)),
                         ret.total_rev)),
               RMul(Q(Len(ret.rows)), Rat(5, 1000)))

\* a later call, with a valid input set, whose rows were really rounded
C1_Witness ==
    /\ calls >= 2
    /\ outcome = "ok" /\ ValidKeys /\ RLt(RZero, rate)
    /\ RLt(RZero, ret.total_rev)
    /\ \E k \in 1..Len(ret.rows) : ret.rows[k].Revenue # frame.iters[k].rev
    /\ RSum(RowRevenues(ret.rows), Len(ret.rows)) # ret.total_rev

\* C2: a call whose concentrate mass flow is 0 (feedRate = 0 or
\* splitterPosition = -1) returns, with concentrate mass flow 0, every grade
\* the sentinel 0 and, for feedRate = 0, every revenue 0.
C2_ZeroFlowIsGuarded ==
    (calls >= 1 /\ ValidKeys /\ frame.conc_mass = RZero) =>
        /\ outcome = "ok"
        /\ ret.conc_mass = RZero
        /\ Len(ret.rows) = Len(RefOrder)
        /\ \A k \in 1..Len(ret.rows) : ret.rows[k].ConcGrade = RZero
        /\ rate = RZero =>
              \A k \in 1..Len(ret.rows) : ret.rows[k].Revenue = RZero

\* C4: the size factor is 1 on [100, 400], feedD80/100 below 100 and
\* max(0.4, 1 - (feedD80 - 400)/800) above 400: never below 0.4 there, 0.4
\* from 880 on (so at 1200) and above 0.4 before 880.
C4_SizeFactor ==
    calls >= 1 =>
        LET sf == frame.size_factor
            lin == 1200 - size_d80
        IN  /\ (size_d80 >= 100 /\ size_d80 <= 400) => sf = Q(1)
            /\ size_d80 < 100 => sf[1] * 100 = size_d80 * sf[2]
            /\ size_d80 > 400 =>
                  /\ sf[1] * 800 = (IF lin > 320 THEN lin ELSE 320) * sf[2]
                  /\ sf[1] * 10 >= 4 * sf[2]
            /\ size_d80 >= 880 => sf = Rat(2, 5)
            /\ (size_d80 > 400 /\ size_d80 < 880) => sf[1] * 10 > 4 * sf[2]

\* the floor engaged: without it the factor would be 0
C4_Witness ==
    /\ calls >= 1
    /\ size_d80 = 1200
    /\ frame.size_factor = Rat(4, 10)

\* C5: per row, feed mass = rate x feed grade (Gold) or rate x feed grade/100,
\* concentrate mineral mass = feed mass x (recovery x size factor)/100, grade =
\* that mass / concentrate mass flow (Gold) or x 100, revenue = that mass x
\* price; the reference scenario gives Gold 240, 156, 2.6 and 12480.
C5_RowFormulas ==
    /\ \A k \in 1..Len(frame.iters) :
          LET it == frame.iters[k]
              fg == FEED_GRADES[it.m]
              pct == Rat(1, 100)
          IN  /\ it.m = targets[k][1]
              /\ it.rec = targets[k][2]
              /\ it.feed_m = IF it.m = "Gold" THEN RMul(rate, fg)
                             ELSE RMul(RMul(rate, fg), pct)
              /\ it.conc_m =
                    RMul(it.feed_m, RMul(RMul(it.rec, frame.size_factor), pct))
              /\ RMul(it.grade, frame.conc_mass) =
                    IF it.m = "Gold" THEN it.conc_m ELSE RMul(it.conc_m, Q(100))
              /\ it.rev = RMul(it.conc_m, prices[it.m])
    /\ ( /\ outcome = "ok"
         /\ rate = Q(300) /\ split_pos = Q(1) /\ size_d80 = 150
         /\ targets = user_targets(BASE_REC) /\ prices = DefaultPrices ) =>
            /\ frame.iters[1].m = "Gold"
            /\ frame.iters[1].feed_m = Q(240)
            /\ frame.iters[1].conc_m = Q(156)
            /\ frame.iters[1].grade = Rat(26, 10)
            /\ frame.iters[1].rev = Q(12480)
            /\ ret.rows[1].ConcGrade = Rat(26, 10)
            /\ ret.rows[1].Revenue = Q(12480)

\* a call that computed Gold and a percent mineral, off the reference scenario
C5_Witness ==
    /\ outcome = "ok"
    /\ rate # Q(300)
    /\ frame.size_factor # Q(1)
    /\ \E k \in 1..Len(frame.iters) :
          frame.iters[k].m = "Gold" /\ RLt(RZero, frame.iters[k].rev)
    /\ \E k \in 1..Len(frame.iters) :
          frame.iters[k].m = "Rutile" /\ RLt(RZero, frame.iters[k].rev)

C7_RowsInReferenceOrder ==
    (outcome = "ok" /\ RefMinerals \subseteq KeySet(targets)) =>
        RowMinerals(ret.rows) = RefOrder

\* C7 as amended: the rows are one row per key of the targets mapping, in the
\* targets mapping's own iteration order; that is the reference order when
\* targets is keyed in the reference order, as user_targets is.
C7_RowsInTargetsOrder ==
    outcome = "ok" =>
        /\ RowMinerals(ret.rows) = Keys(targets)
        /\ Keys(targets) = RefOrder => RowMinerals(ret.rows) = RefOrder

\* a returned result for a targets mapping keyed in another order
C7_Witness ==
    /\ outcome = "ok"
    /\ KeySet(targets) = RefMinerals
    /\ Keys(targets) # RefOrder
    /\ Len(ret.rows) = Len(RefOrder)

\* C9: a targets or prices mapping that does not cover exactly the reference
\* set ends the call with an explicit contract error: not with a result that
\* lacks the missing mineral, not with a bare KeyError.
C9_ContractViolationIsExplicit ==
    (calls >= 1 /\ ~ValidKeys) => outcome \notin {"ok", "KeyError"}

(***************************************************************************)
(* CALCULATIONS: the caller-derived metrics (lines 104-120), as functions  *)
(* of the names they read from the module namespace g.                     *)
(***************************************************************************)
\* not a number: what a float division by zero would leave had it not raised
NaR == <<0, 0>>

\* default values of the OPEX inputs and KPI targets
DefaultCosts ==
    [labour_cost |-> Q(120), power_kw |-> Q(150), power_rate |-> Rat(12, 100),
     water_cost |-> Q(15), maintenance_cost |-> Q(40), mining_cost |-> Q(8),
     lease_tax |-> Q(25), target_margin |-> Q(25),
     target_throughput |-> Q(300), target_profit_hr |-> Q(5000)]

\* g with the names of h bound (rebound) to h's values
Bind(g, h) ==
    [n \in DOMAIN g \cup DOMAIN h |-> IF n \in DOMAIN h THEN h[n] ELSE g[n]]

\* power_cost = power_kw * power_rate
power_cost_of(g) == RMul(g.power_kw, g.power_rate)

\* mining_cost_hr = f_rate * mining_cost
mining_cost_hr_of(g) == RMul(g.f_rate, g.mining_cost)

\* total_opex = (labour_cost + power_cost + water_cost + maintenance_cost
\*               + mining_cost_hr + lease_tax)
total_opex_of(g) ==
    RAdd(RAdd(RAdd(RAdd(RAdd(g.labour_cost, power_cost_of(g)), g.water_cost),
                   g.maintenance_cost), mining_cost_hr_of(g)), g.lease_tax)

\* profit_hr = total_revenue - total_opex
profit_hr_of(total_revenue, total_opex) == RSub(total_revenue, total_opex)

\* actual_margin = (profit_hr / total_revenue) * 100 if total_revenue > 0 else 0
actual_margin_of(profit_hr, total_revenue) ==
    IF RLt(RZero, total_revenue)
    THEN RMul(RDiv(profit_hr, total_revenue), Q(100))
    ELSE RZero

\* cost_per_ton = total_opex / f_rate if f_rate > 0 else 0
cost_per_ton_unguarded(total_opex, f_rate) ==
    IF f_rate = RZero THEN NaR ELSE RDiv(total_opex, f_rate)

cost_per_ton_of(total_opex, f_rate) ==
    IF RLt(RZero, f_rate) THEN RDiv(total_opex, f_rate) ELSE RZero

\* profit_per_ton = profit_hr / f_rate if f_rate > 0 else 0
profit_per_ton_of(profit_hr, f_rate) ==
    IF RLt(RZero, f_rate) THEN RDiv(profit_hr, f_rate) ELSE RZero

\* kpi_status = {"Throughput OK": ..., "Profit Margin OK": ..., "Profit/hr OK": ...}
kpi_status_of(g, profit_hr, actual_margin) ==
    [Throughput |-> RLe(g.target_throughput, g.f_rate),
     ProfitMargin |-> RLe(g.target_margin, actual_margin),
     ProfitHr |-> RLe(g.target_profit_hr, profit_hr)]

\* lines 104-106
OpexNames(g) ==
    [power_cost |-> power_cost_of(g),
     mining_cost_hr |-> mining_cost_hr_of(g),
     total_opex |-> total_opex_of(g)]

\* lines 109-110
ProfitNames(g) ==
    LET p == profit_hr_of(g.total_revenue, g.total_opex)
    IN  [profit_hr |-> p, actual_margin |-> actual_margin_of(p, g.total_revenue)]

\* lines 113-120
KpiNames(g) ==
    [kpi_status |-> kpi_status_of(g, g.profit_hr, g.actual_margin),
     cost_per_ton |-> cost_per_ton_of(g.total_opex, g.f_rate),
     profit_per_ton |-> profit_per_ton_of(g.profit_hr, g.f_rate)]

(***************************************************************************)
(* The derivation on its own: lines 104-120 applied to a namespace that    *)
(* holds a total revenue, a feed rate and the cost inputs.  The samples    *)
(* hold the guards' cases (total revenue negative, 0, positive; feed rate  *)
(* 0) and the scenario total revenue 1000, OPEX 750.                       *)
(***************************************************************************)
RevenueSamples == {Q(-100), Q(0), Q(1000), Q(5000), Rat(151485, 10)}

FeedRateSamples == {Q(0), Q(100), Q(300), Q(500)}

LabourSamples == {Q(120), Q(152)}

MiningSamples == {Q(8), Q(5)}

InitMetrics ==
    /\ EngineIdle
    /\ HeatIdle
    /\ pc = "derive"
    /\ \E tr \in RevenueSamples, fr \in FeedRateSamples,
          lc \in LabourSamples, mc \in MiningSamples :
          globals = Bind([DefaultCosts EXCEPT !.labour_cost = lc,
                                              !.mining_cost = mc],
                         [total_revenue |-> tr, f_rate |-> fr])

Derive ==
    /\ pc = "derive"
    /\ LET g1 == Bind(globals, OpexNames(globals))
           g2 == Bind(g1, ProfitNames(g1))
       IN  globals' = Bind(g2, KpiNames(g2))
    /\ pc' = "derived"
    /\ UNCHANGED <<engineVars, heatVars>>

NextMetrics == Derive

SpecMetrics == InitMetrics /\ [][NextMetrics]_vars

\* C8: profit/hr = total revenue - total OPEX; margin % = profit/hr / total
\* revenue x 100 when total revenue > 0, else 0 (1000 and 750 give 250 and
\* 25.0); cost/ton and profit/ton = total OPEX / feed rate and profit/hr /
\* feed rate when feed rate > 0, and 0 at feed rate 0; no division by zero.
C8_DerivedMetricsGuarded ==
    pc = "derived" =>
        LET g == globals
            opex == RAdd(RAdd(RAdd(g.labour_cost, g.water_cost),
                              RAdd(g.maintenance_cost, g.lease_tax)),
                         RAdd(RMul(g.power_kw, g.power_rate),
                              RMul(g.f_rate, g.mining_cost)))
        IN  /\ g.total_opex = opex
            /\ RAdd(g.profit_hr, g.total_opex) = g.total_revenue
            /\ {g.actual_margin, g.cost_per_ton, g.profit_per_ton} \cap {NaR} = {}
            /\ RLt(RZero, g.total_revenue) =>
                  RMul(g.actual_margin, g.total_revenue) = RMul(g.profit_hr, Q(100))
            /\ RLe(g.total_revenue, RZero) => g.actual_margin = RZero
            /\ (g.total_revenue = Q(1000) /\ g.total_opex = Q(750)) =>
                  (g.profit_hr = Q(250) /\ g.actual_margin = Q(25))
            /\ RLt(RZero, g.f_rate) =>
                  /\ RMul(g.cost_per_ton, g.f_rate) = g.total_opex
                  /\ RMul(g.profit_per_ton, g.f_rate) = g.profit_hr
            /\ g.f_rate = RZero =>
                  (g.cost_per_ton = RZero /\ g.profit_per_ton = RZero)

\* both guards taken at once: no revenue and no feed, with costs still due
C8_Witness ==
    /\ pc = "derived"
    /\ globals.total_revenue = RZero
    /\ globals.f_rate = RZero
    /\ RLt(globals.profit_hr, RZero)
    /\ globals.actual_margin = RZero
    /\ globals.cost_per_ton = RZero

(***************************************************************************)
(* Heatmap function: generate_heatmap_data(targets, prices, d80, solids).  *)
(* It reads the cost inputs from the module namespace g.                   *)
(***************************************************************************)
\* the sample count of both axes: np.linspace(.., .., 10), np.zeros((10, 10))
SampleCount == 10

\* np.linspace(start, stop, num): num evenly spaced samples, both ends included
linspace(start, stop, num) ==
    LET step == RDiv(RSub(stop, start), Q(num - 1))
    IN  [i \in 1..num |-> RAdd(start, RMul(Q(i - 1), step))]

\* t_opex = labour_cost + (power_kw * power_rate) + water_cost
\*          + maintenance_cost + (r * mining_cost) + lease_tax
t_opex_of(g, r) ==
    RAdd(RAdd(RAdd(RAdd(RAdd(g.labour_cost, RMul(g.power_kw, g.power_rate)),
                        g.water_cost), g.maintenance_cost),
              RMul(r, g.mining_cost)), g.lease_tax)

\* one pass of the inner loop body; the engine's exception, if any, goes up
heat_cell(t, pr, d80, g, r, s) ==
    LET f == ultra_engine(r, t, pr, s, d80)
    IN  [status |-> f.status, value |-> RSub(f.total_rev, t_opex_of(g, r))]

\* grid[i, j] with the two loop variables swapped
generate_heatmap_transposed(t, pr, d80, solids, g) ==
    LET rates == linspace(Q(100), Q(500), SampleCount)
        splits == linspace(Q(0), Q(2), SampleCount)
        cells == [i \in 1..SampleCount |-> [j \in 1..SampleCount |->
                     heat_cell(t, pr, d80, g, rates[j], splits[i])]]
    IN  [status |-> cells[1][1].status,
         grid |-> [i \in 1..SampleCount |-> [j \in 1..SampleCount |->
                      cells[i][j].value]],
         rates |-> rates, splits |-> splits]

\* the engine ends every cell's call the same way (the key sets and d80 are
\* the same in all of them, and conc_mass > 0 on the whole grid), so the
\* first cell's status is the sweep's
generate_heatmap_data(t, pr, d80, solids, g) ==
    LET rates == linspace(Q(100), Q(500), SampleCount)
        splits == linspace(Q(0), Q(2), SampleCount)
        cells == [i \in 1..SampleCount |-> [j \in 1..SampleCount |->
                     heat_cell(t, pr, d80, g, rates[i], splits[j])]]
    IN  [status |-> cells[1][1].status,
         grid |-> [i \in 1..SampleCount |-> [j \in 1..SampleCount |->
                      cells[i][j].value]],
         rates |-> rates, splits |-> splits]

(***************************************************************************)
(* The sweep on its own: one call per argument tuple and cost setting.     *)
(***************************************************************************)
HeatTargetSamples ==
    {user_targets(BASE_REC), user_targets(AltRec),
     Items(MissingOrder, BASE_REC), Items(UnknownOrder, WithZircon(BASE_REC))}

HeatPriceSamples == {DefaultPrices, AltPrices}

HeatD80Samples == {50, 150, 1000}

SolidsSamples == {30}

InitHeat ==
    /\ EngineIdle
    /\ pc = "sweep"
    /\ \E lc \in LabourSamples, mc \in MiningSamples :
          globals = [DefaultCosts EXCEPT !.labour_cost = lc, !.mining_cost = mc]
    /\ \E t \in HeatTargetSamples, pr \in HeatPriceSamples,
          d \in HeatD80Samples, so \in SolidsSamples :
          heat_args = [targets |-> t, prices |-> pr, d80 |-> d, solids |-> so]
    /\ heat = <<>>

Sweep ==
    /\ pc = "sweep"
    /\ LET h == generate_heatmap_data(heat_args.targets, heat_args.prices,
                                      heat_args.d80, heat_args.solids, globals)
       IN  IF h.status = "ok"
           THEN /\ heat' = [grid |-> h.grid, rates |-> h.rates, splits |-> h.splits]
                /\ pc' = "swept"
           ELSE /\ heat' = heat
                /\ pc' = h.status
    /\ UNCHANGED <<engineVars, globals, heat_args>>

NextHeat == Sweep

SpecHeat == InitHeat /\ [][NextHeat]_vars

\* C3: the grid is 10 x 10 over the evenly spaced axes [100, 500] and [0, 2],
\* and cell (i, j) is the engine's total revenue at (rates[i], splits[j]) minus
\* the point estimate's total OPEX formula at feed rate rates[i]: first index
\* the feed-rate axis, second the splitter axis.
C3_GridCells ==
    pc = "swept" =>
        /\ Len(heat.grid) = 10 /\ Len(heat.rates) = 10 /\ Len(heat.splits) = 10
        /\ heat.rates[1] = Q(100) /\ heat.rates[10] = Q(500)
        /\ heat.splits[1] = Q(0) /\ heat.splits[10] = Q(2)
        /\ \A i \in 1..9 :
              /\ RSub(heat.rates[i + 1], heat.rates[i]) = Rat(400, 9)
              /\ RSub(heat.splits[i + 1], heat.splits[i]) = Rat(2, 9)
        /\ \A i \in 1..10 :
              /\ Len(heat.grid[i]) = 10
              /\ \A j \in 1..10 :
                    LET f == ultra_engine(heat.rates[i], heat_args.targets,
                                 heat_args.prices, heat.splits[j], heat_args.d80)
                        opex == total_opex_of(
                                    Bind(globals, [f_rate |-> heat.rates[i]]))
                    IN  /\ f.status = "ok"
                        /\ heat.grid[i][j] = RSub(f.total_rev, opex)

\* a grid whose rows differ: the profit at 100 tph is not that at 500 tph
C3_Witness ==
    /\ pc = "swept"
    /\ heat.grid[1][10] # heat.grid[10][1]
    /\ RLt(heat.grid[1][1], heat.grid[10][10])
    /\ RLt(RZero, heat.grid[10][10])

(***************************************************************************)
(* The script, top to bottom: one run for one setting of the widgets.  pc  *)
(* names the statement about to run; globals is the module namespace, in   *)
(* which reading an unbound name raises NameError.                         *)
(***************************************************************************)
\* st.sidebar.slider("Feed Rate (tph)", 100, 500, 300)
FRateSamples == {Q(100), Q(300), Q(500)}

\* st.sidebar.slider("Feed d80 (microns)", 20, 1000, 150)
D80Slider == {20, 150, 1000}

\* st.sidebar.slider("Splitter Position (0=Tight, 2=Wide)", 0.0, 2.0, 1.0)
SplitterSamples == {Q(0), Q(1), Q(2)}

\* the names make_complete_report is called with (lines 273-276)
ReportArgs ==
    <<"df_res", "f_rate", "c_mass", "d80", "total_revenue", "splitter_pos",
      "grid_data", "x_labels", "y_labels">>

\* the names the sweep's result would be bound to
SweepNames == {"grid_data", "x_labels", "y_labels"}

Unbound(names, g) == {n \in names : n \notin DOMAIN g}

\* 3. SIDEBAR CONTROLS: the widgets' values are bound (lines 33-70)
InitScript ==
    /\ EngineIdle
    /\ HeatIdle
    /\ pc = "engine"
    /\ \E fr \in FRateSamples, d \in D80Slider, sp \in SplitterSamples,
          rec \in {BASE_REC, AltRec}, pr \in {DefaultPrices, AltPrices} :
          globals = Bind(DefaultCosts,
                         [f_rate |-> fr, solids |-> Q(30), d80 |-> d,
                          splitter_pos |-> sp,
                          user_targets |-> user_targets(rec),
                          user_prices |-> pr])

\* 1. Run Engine first to get revenue (line 101)
RunEngine ==
    /\ pc = "engine"
    /\ LET f == ultra_engine(globals.f_rate, globals.user_targets,
                             globals.user_prices, globals.splitter_pos,
                             globals.d80)
       IN  IF f.status = "ok"
           THEN /\ globals' = Bind(globals,
                                   [df_res |-> f.results, c_mass |-> f.conc_mass,
                                    total_revenue |-> f.total_rev])
                /\ pc' = "opex"
           ELSE /\ globals' = globals
                /\ pc' = f.status
    /\ UNCHANGED <<engineVars, heatVars>>

\* 2. Calculate OPEX (lines 104-106)
CalcOpex ==
    /\ pc = "opex"
    /\ globals' = Bind(globals, OpexNames(globals))
    /\ pc' = "profit"
    /\ UNCHANGED <<engineVars, heatVars>>

\* 3. Calculate Profit and Margin (lines 109-110)
CalcProfit ==
    /\ pc = "profit"
    /\ globals' = Bind(globals, ProfitNames(globals))
    /\ pc' = "kpi"
    /\ UNCHANGED <<engineVars, heatVars>>

\* 4. KPI Status check, cost and profit per ton (lines 113-120)
CalcKpi ==
    /\ pc = "kpi"
    /\ globals' = Bind(globals, KpiNames(globals))
    /\ pc' = "defs"
    /\ UNCHANGED <<engineVars, heatVars>>

\* lines 123-147: three def statements; each binds a function and calls nothing
DefineFunctions ==
    /\ pc = "defs"
    /\ globals' = Bind(globals,
                       [generate_heatmap_data |-> "function",
                        run_digitizer |-> "function",
                        get_expert_insights |-> "function"])
    /\ pc' = "tabs"
    /\ UNCHANGED <<engineVars, heatVars>>

\* 5. TABS & VISUALS (lines 180-214): the dashboard reads names bound above
ShowTabs ==
    /\ pc = "tabs"
    /\ IF Unbound({"c_mass", "total_revenue", "d80", "f_rate", "cost_per_ton",
                   "profit_hr", "profit_per_ton", "total_opex", "df_res"},
                  globals) = {}
       THEN pc' = "export"
       ELSE pc' = "NameError"
    /\ globals' = globals
    /\ UNCHANGED <<engineVars, heatVars>>

\* lines 216-276: def make_complete_report, then the call's arguments are
\* evaluated; a name among them that is not bound raises NameError.  What
\* follows a successful call (the download button) is in the same branch.
ExportReport ==
    /\ pc = "export"
    /\ IF Unbound({ReportArgs[i] : i \in 1..Len(ReportArgs)}, globals) = {}
       THEN /\ globals' = Bind(globals,
                               [make_complete_report |-> "function",
                                report_data |->
                                    [df |-> globals.df_res,
                                     grid |-> globals.grid_data,
                                     x_vals |-> globals.x_labels,
                                     y_vals |-> globals.y_labels]])
            /\ pc' = "done"
       ELSE /\ globals' = Bind(globals, [make_complete_report |-> "function"])
            /\ pc' = "NameError"
    /\ UNCHANGED <<engineVars, heatVars>>

NextScript ==
    \/ RunEngine
    \/ CalcOpex
    \/ CalcProfit
    \/ CalcKpi
    \/ DefineFunctions
    \/ ShowTabs
    \/ ExportReport

SpecScript == InitScript /\ [][NextScript]_vars

\* C10: by the time the export step runs, the sweep has been invoked and its
\* grid and two axes are bound, so make_complete_report gets them as grid,
\* x_vals and y_vals and the export never reads a name that is not bound.
C10_ExportAfterSweep ==
    /\ pc = "export" => SweepNames \subseteq DOMAIN globals
    /\ pc # "NameError"
    /\ pc = "done" => "report_data" \in DOMAIN globals

=============================================================================
